---- MODULE Spec2Model ----
(***************************************************************************)
(* A model of cloudflare-workers-unfurl (src/unfurl.js): the exported      *)
(* functions unfurl and handleUnfurlRequest, the three HTMLRewriter        *)
(* handlers TextExtractor, MetaExtractor and IconExtractor, and the        *)
(* resolution of the four fields title, description, image and favicon.    *)
(*                                                                         *)
(* JavaScript strings are TLA+ strings; a JavaScript value that may also   *)
(* be null, undefined or of another type is a record [t, v] with its type  *)
(* tag t (the result of typeof, with "null" kept apart) and its text v.    *)
(*                                                                         *)
(* Spec follows the two exports as they are written.  The first if of      *)
(* unfurl holds for every argument, so Spec ends in bad-param; PassSpec     *)
(* follows the statements of unfurl after that if (the try block and the    *)
(* resolution) for an http(s) request URL, and FullSpec follows both, with  *)
(* handleUnfurlRequest answering what unfurl returned.                      *)
(***************************************************************************)
EXTENDS Integers, Sequences, FiniteSets, TLC

VARIABLES
    entry,            \* the export that was called: "unfurl", "handleUnfurlRequest"
    query,            \* handleUnfurlRequest: searchParams.get("url")
    url,              \* unfurl: its argument
    pc,               \* where the call is
    fetchCalls,       \* how often fetch(url) was invoked
    status,           \* the status of the fetched response, 0 before it
    fault,            \* what was thrown inside the try block, "none" if nothing
    doc,              \* the events HTMLRewriter has delivered, in document order
    title_string,     \* title$.string
    meta_og,          \* meta$.og
    meta_twitter,     \* meta$.twitter
    meta_description, \* meta$.description
    icon_appleIcon,   \* icon$.appleIcon
    icon_icon,        \* icon$.icon
    result,           \* what unfurl returned
    response          \* what handleUnfurlRequest returned

vars == <<entry, query, url, pc, fetchCalls, status, fault, doc, title_string,
          meta_og, meta_twitter, meta_description, icon_appleIcon, icon_icon,
          result, response>>

----------------------------------------------------------------------------
(* JavaScript values *)

Str(s) == [t |-> "string", v |-> s]
Null == [t |-> "null", v |-> ""]
Undefined == [t |-> "undefined", v |-> ""]
Num(s) == [t |-> "number", v |-> s]
Obj(s) == [t |-> "object", v |-> s]

IsString(x) == x.t = "string"

\* x == null || x === undefined, the test the ?? operator makes
IsNullish(x) == x.t \in {"null", "undefined"}

\* the JavaScript truthiness of a string, null or undefined
Truthy(x) == IsString(x) /\ x.v # ""

\* a || b in the place of a ?? b: an empty string falls through as well
NullishCoalesce_Or(a, b) == IF Truthy(a) THEN a ELSE b

\* a ?? b
NullishCoalesce(a, b) == IF IsNullish(a) THEN b ELSE a

\* String.prototype.startsWith
StartsWith(s, prefix) ==
    Len(s) >= Len(prefix) /\ SubSeq(s, 1, Len(prefix)) = prefix

\* obj[key] of a plain object: undefined when the key was never written
Get(obj, key) == IF key \in DOMAIN obj THEN obj[key] ELSE Undefined

\* a store that keeps the value a key already has
Put_KeepFirst(obj, key, value) ==
    [k \in (DOMAIN obj) \cup {key} |-> IF k \in DOMAIN obj THEN obj[k] ELSE value]

\* obj = {[key]: value}: the keys stored before are dropped
Put_DropOthers(obj, key, value) == [k \in {key} |-> value]

\* obj[key] = value
Put(obj, key, value) ==
    [k \in (DOMAIN obj) \cup {key} |-> IF k = key THEN value ELSE obj[k]]

EmptyObject == [k \in {} |-> Undefined]

----------------------------------------------------------------------------
(* new URL(input, base).href, the WHATWG URL parser, for http(s) bases and
   inputs without credentials, ports, percent-encoding or upper case *)

Min(S) == CHOOSE x \in S : \A y \in S : x <= y

\* the character of s at position i, as a string of length one
CharAt(s, i) == SubSeq(s, i, i)

\* the suffix of s that starts at position i
From(s, i) == SubSeq(s, i, Len(s))

\* the first position of s holding one of chars, Len(s) + 1 when there is none
FirstOf(s, chars) ==
    LET hits == {j \in 1..Len(s) : CharAt(s, j) \in chars}
    IN  IF hits = {} THEN Len(s) + 1 ELSE Min(hits)

Alpha ==
    {"a", "b", "c", "d", "e", "f", "g", "h", "i", "j", "k", "l", "m",
     "n", "o", "p", "q", "r", "s", "t", "u", "v", "w", "x", "y", "z"}

SchemeChars ==
    Alpha \cup {"0", "1", "2", "3", "4", "5", "6", "7", "8", "9", "+", "-", "."}

SpecialSchemes == {"http", "https", "ftp", "ws", "wss"}

ForbiddenHostChars == {" ", "<", ">", "^", "|"}

\* input starts with a scheme: a letter, then letters, digits, + - ., then ":"
HasScheme(s) ==
    LET c == FirstOf(s, {":"})
    IN  /\ 1 < c
        /\ c <= Len(s)
        /\ CharAt(s, 1) \in Alpha
        /\ \A j \in 1..(c - 1) : CharAt(s, j) \in SchemeChars

SchemeOf(s) == SubSeq(s, 1, FirstOf(s, {":"}) - 1)

\* leading and trailing spaces are stripped from the input
RECURSIVE TrimLeft(_)
TrimLeft(s) ==
    IF Len(s) > 0 /\ CharAt(s, 1) = " " THEN TrimLeft(From(s, 2)) ELSE s

RECURSIVE TrimRight(_)
TrimRight(s) ==
    IF Len(s) > 0 /\ CharAt(s, Len(s)) = " "
    THEN TrimRight(SubSeq(s, 1, Len(s) - 1))
    ELSE s

Trim(s) == TrimRight(TrimLeft(s))

RECURSIVE SkipSlashes(_)
SkipSlashes(s) ==
    IF Len(s) > 0 /\ CharAt(s, 1) = "/" THEN SkipSlashes(From(s, 2)) ELSE s

\* a path "/a/b" as its segments <<"a", "b">>
RECURSIVE Segments(_)
Segments(path) ==
    LET rest == From(path, 2)
        n == FirstOf(rest, {"/"})
        seg == SubSeq(rest, 1, n - 1)
    IN  IF n > Len(rest) THEN <<seg>> ELSE <<seg>> \o Segments(From(rest, n))

\* the path state: ".." drops the last segment, "." is skipped, and either
\* one in last place leaves an empty segment
RECURSIVE RemoveDots(_, _, _)
RemoveDots(segs, i, acc) ==
    IF i > Len(segs) THEN acc
    ELSE LET seg == segs[i]
             last == (i = Len(segs))
             popped == IF acc = <<>> THEN acc ELSE SubSeq(acc, 1, Len(acc) - 1)
         IN  IF seg = ".."
             THEN RemoveDots(segs, i + 1, IF last THEN Append(popped, "") ELSE popped)
             ELSE IF seg = "."
             THEN RemoveDots(segs, i + 1, IF last THEN Append(acc, "") ELSE acc)
             ELSE RemoveDots(segs, i + 1, Append(acc, seg))

RECURSIVE JoinPath(_)
JoinPath(segs) ==
    IF segs = <<>> THEN "" ELSE ("/" \o Head(segs)) \o JoinPath(Tail(segs))

NormalizePath(path) ==
    IF path = "" THEN "/" ELSE JoinPath(RemoveDots(Segments(path), 1, <<>>))

\* "path?query#fragment" split; query keeps its "?", fragment its "#"
SplitTail(t) ==
    LET q == FirstOf(t, {"?", "#"})
        after == From(t, q)
        f == FirstOf(after, {"#"})
    IN  [path |-> SubSeq(t, 1, q - 1),
         query |-> SubSeq(after, 1, f - 1),
         fragment |-> From(after, f)]

URLFailure == [ok |-> FALSE, href |-> ""]

\* "host/path?query#fragment" under a special scheme
ParseAuthority(scheme, s) ==
    LET h == FirstOf(s, {"/", "?", "#"})
        host == SubSeq(s, 1, h - 1)
        tail == SplitTail(From(s, h))
    IN  IF host = "" \/ \E j \in 1..Len(host) : CharAt(host, j) \in ForbiddenHostChars
        THEN URLFailure
        ELSE [ok |-> TRUE,
              href |-> scheme \o "://" \o host \o NormalizePath(tail.path)
                       \o tail.query \o tail.fragment]

\* the parts of an absolute http(s) URL
BaseParts(base) ==
    LET scheme == SchemeOf(base)
        s == SkipSlashes(From(base, Len(scheme) + 2))
        h == FirstOf(s, {"/", "?", "#"})
        tail == SplitTail(From(s, h))
    IN  [scheme |-> scheme,
         host |-> SubSeq(s, 1, h - 1),
         path |-> NormalizePath(tail.path),
         query |-> tail.query]

\* the directory of a path: the path without its last segment
DirOf(path) ==
    LET segs == Segments(path)
    IN  JoinPath(SubSeq(segs, 1, Len(segs) - 1))

\* new URL(input, base): [ok, href], ok = FALSE when it throws a TypeError
ResolveURL(input, base) ==
    LET in == Trim(input)
        b == BaseParts(base)
        origin == b.scheme \o "://" \o b.host
    IN  IF HasScheme(in)
        THEN IF SchemeOf(in) \in SpecialSchemes
             THEN ParseAuthority(SchemeOf(in),
                                 SkipSlashes(From(in, Len(SchemeOf(in)) + 2)))
             ELSE [ok |-> TRUE, href |-> in]
        ELSE IF StartsWith(in, "//")
        THEN ParseAuthority(b.scheme, SkipSlashes(in))
        ELSE IF StartsWith(in, "/")
        THEN LET t == SplitTail(in)
             IN  [ok |-> TRUE,
                  href |-> origin \o NormalizePath(t.path) \o t.query \o t.fragment]
        ELSE IF in = ""
        THEN [ok |-> TRUE, href |-> origin \o b.path \o b.query]
        ELSE IF StartsWith(in, "?")
        THEN [ok |-> TRUE, href |-> origin \o b.path \o in]
        ELSE IF StartsWith(in, "#")
        THEN [ok |-> TRUE, href |-> origin \o b.path \o b.query \o in]
        ELSE LET t == SplitTail(in)
             IN  [ok |-> TRUE,
                  href |-> origin \o NormalizePath(DirOf(b.path) \o "/" \o t.path)
                           \o t.query \o t.fragment]

----------------------------------------------------------------------------
(* The inputs: the arguments of the exports, and what HTMLRewriter delivers *)

\* the most events one document delivers
MaxEvents == 2

\* strings passed as the url argument or the url query parameter
UrlStrings ==
    {"", "https://example.com/page", "http://example.com/", "https://",
     "http://", "http", "https", "http:/example.com", "httpfoo",
     "ftp://example.com/x", "example.com", "/page", "//example.com/page",
     "javascript:alert(1)", " https://example.com", "HTTPS://EXAMPLE.COM/",
     "file:///etc/passwd", "data:text/html,x", "about:blank", "localhost"}

\* values passed as the url argument that are not strings
NonStrings == {Undefined, Null, Num("42"), Obj("{}"), Obj("new URL('https://example.com')")}

\* the request URLs the extraction is followed with
PassUrls == {"https://example.com/page", "http://a.test/dir/doc.html?x=1"}

\* the statuses of the responses fetch resolves with
Statuses == {200, 404}

\* <meta property=.. name=.. content=..>; a missing attribute is Null, as
\* element.getAttribute returns it
Meta(property, name, content) ==
    [tag |-> "meta", property |-> property, name |-> name, content |-> content]

\* <link rel=.. href=..>
Link(rel, href) == [tag |-> "link", rel |-> rel, href |-> href]

\* a text chunk inside a <title>
Text(text) == [tag |-> "title", text |-> text]

MetaElements ==
    {Meta(Str("og:title"), Null, Str("A")),
     Meta(Str("og:title"), Str("twitter:title"), Str("B")),
     Meta(Str("og:title"), Null, Null),
     Meta(Null, Str("twitter:title"), Str("T")),
     Meta(Str("og:description"), Null, Str("")),
     Meta(Str("og:description"), Str("description"), Str("/about.html")),
     Meta(Null, Str("twitter:description"), Str("E")),
     Meta(Null, Str("description"), Str("G")),
     Meta(Str("og:image:secure_url"), Null, Str("https://cdn.example.com/s.png")),
     Meta(Str("og:image"), Null, Str("/img.png")),
     Meta(Str("og:image"), Null, Str("//")),
     Meta(Str("article:tag"), Str("keywords"), Str("K")),
     Meta(Null, Str("twitter:image"), Str(""))}

LinkElements ==
    {Link(Str("icon"), Str("/favicon.ico")),
     Link(Str("icon"), Str("httpfoo")),
     Link(Str("icon"), Null),
     Link(Str("apple-touch-icon"), Str("apple.png")),
     Link(Str("shortcut icon"), Str("/s.ico")),
     Link(Null, Str("/x.ico"))}

TextChunks == {"Hel", "lo", ""}

----------------------------------------------------------------------------
(* The handlers *)

\* this.string = text in the place of this.string += text
TextExtractor_text_Overwrite(string, chunk) == chunk.text

\* TextExtractor.text
TextExtractor_text(string, chunk) == string \o chunk.text

\* an element without a content attribute is passed over
MetaExtractor_element_SkipMissing(m, element) ==
    LET property == element.property
        name == element.name
    IN  IF element.content = Null
        THEN m
        ELSE IF Truthy(property) /\ StartsWith(property.v, "og:")
        THEN [m EXCEPT !.og = Put(m.og, property.v, element.content)]
        ELSE IF Truthy(name) /\ StartsWith(name.v, "twitter:")
        THEN [m EXCEPT !.twitter = Put(m.twitter, name.v, element.content)]
        ELSE IF name = Str("description")
        THEN [m EXCEPT !.description = element.content]
        ELSE m

\* three independent ifs in the place of the if / else if chain
MetaExtractor_element_EveryRule(m, element) ==
    LET property == element.property
        name == element.name
        m1 == IF Truthy(property) /\ StartsWith(property.v, "og:")
              THEN [m EXCEPT !.og = Put(m.og, property.v, element.content)]
              ELSE m
        m2 == IF Truthy(name) /\ StartsWith(name.v, "twitter:")
              THEN [m1 EXCEPT !.twitter = Put(m.twitter, name.v, element.content)]
              ELSE m1
    IN  IF name = Str("description")
        THEN [m2 EXCEPT !.description = element.content]
        ELSE m2

\* MetaExtractor.element, on m = [og, twitter, description]
MetaExtractor_element(m, element) ==
    LET property == element.property
        name == element.name
    IN  IF Truthy(property) /\ StartsWith(property.v, "og:")
        THEN [m EXCEPT !.og = Put(m.og, property.v, element.content)]
        ELSE IF Truthy(name) /\ StartsWith(name.v, "twitter:")
        THEN [m EXCEPT !.twitter = Put(m.twitter, name.v, element.content)]
        ELSE IF name = Str("description")
        THEN [m EXCEPT !.description = element.content]
        ELSE m

\* rel matched as a list of tokens: "shortcut icon" counts as an icon
IconExtractor_element_RelTokens(i, element) ==
    IF element.rel \in {Str("icon"), Str("shortcut icon")}
    THEN [i EXCEPT !.icon = element.href]
    ELSE IF element.rel = Str("apple-touch-icon")
    THEN [i EXCEPT !.appleIcon = element.href]
    ELSE i

\* IconExtractor.element, on i = [appleIcon, icon]
IconExtractor_element(i, element) ==
    IF element.rel = Str("icon")
    THEN [i EXCEPT !.icon = element.href]
    ELSE IF element.rel = Str("apple-touch-icon")
    THEN [i EXCEPT !.appleIcon = element.href]
    ELSE i

----------------------------------------------------------------------------
(* unfurl *)

GoodResult(value) == [ok |-> TRUE, value |-> value]
BadResult(error) == [ok |-> FALSE, error |-> error]
NoResult == [pending |-> TRUE]

\* the condition with && for each ||: a string of any kind passes
BadParam_AllAnd(u) ==
    /\ ~IsString(u)
    /\ ~StartsWith(u.v, "http://")
    /\ ~StartsWith(u.v, "https://")

\* the condition of the first if of unfurl
BadParam(u) ==
    \/ ~IsString(u)
    \/ ~StartsWith(u.v, "http://")
    \/ ~StartsWith(u.v, "https://")

\* og["og:title"] ?? twitter["twitter:title"] ?? title$.string ?? undefined
TitleOf(og, twitter, string) ==
    NullishCoalesce(
        NullishCoalesce(
            NullishCoalesce(Get(og, "og:title"), Get(twitter, "twitter:title")),
            Str(string)),
        Undefined)

DescriptionOf(og, twitter, description) ==
    NullishCoalesce(
        NullishCoalesce(
            NullishCoalesce(Get(og, "og:description"),
                            Get(twitter, "twitter:description")),
            description),
        Undefined)

\* the image before the URL is made absolute
ImageCandidate(og, twitter) ==
    NullishCoalesce(
        NullishCoalesce(
            NullishCoalesce(Get(og, "og:image:secure_url"), Get(og, "og:image")),
            Get(twitter, "twitter:image")),
        Undefined)

\* the favicon before the URL is made absolute
FaviconCandidate(appleIcon, icon) ==
    NullishCoalesce(NullishCoalesce(appleIcon, icon), Undefined)

\* if (c && !c?.startsWith("http")) c = new URL(c, url).href
\* [threw, value]: threw when new URL throws
Absolutize(c, base) ==
    IF Truthy(c) /\ ~StartsWith(c.v, "http")
    THEN LET u == ResolveURL(c.v, base)
         IN  IF u.ok THEN [threw |-> FALSE, value |-> Str(u.href)]
                     ELSE [threw |-> TRUE, value |-> Undefined]
    ELSE [threw |-> FALSE, value |-> c]

\* the value of a success result
UnfurledData(title, description, image, favicon) ==
    [title |-> title, description |-> description,
     image |-> image, favicon |-> favicon]

\* a catch block that hands out what the handlers held when the pass threw
CatchResult_Partial ==
    [ok |-> FALSE, error |-> "failed-fetch",
     value |-> UnfurledData(Str(title_string), Undefined, Undefined, Undefined)]

\* what unfurl returns from inside the catch block
CatchResult == BadResult("failed-fetch")

FreshAccumulators ==
    /\ title_string = ""
    /\ meta_og = EmptyObject
    /\ meta_twitter = EmptyObject
    /\ meta_description = Null
    /\ icon_appleIcon = Null
    /\ icon_icon = Null

accumulators ==
    <<title_string, meta_og, meta_twitter, meta_description,
      icon_appleIcon, icon_icon>>

Init ==
    /\ entry = "none"
    /\ query = Null
    /\ url = Undefined
    /\ pc = "Idle"
    /\ fetchCalls = 0
    /\ status = 0
    /\ fault = "none"
    /\ doc = <<>>
    /\ FreshAccumulators
    /\ result = NoResult
    /\ response = [status |-> 0]

\* a call unfurl(u)
CallUnfurl(u) ==
    /\ pc = "Idle"
    /\ entry' = "unfurl"
    /\ url' = u
    /\ pc' = "Validating"
    /\ UNCHANGED <<query, fetchCalls, status, fault, doc, accumulators,
                   result, response>>

\* the first if of unfurl, and the three constructors after it
Validate ==
    /\ pc = "Validating"
    /\ IF BadParam(url)
       THEN /\ result' = BadResult("bad-param")
            /\ pc' = "Returned"
       ELSE /\ result' = result
            /\ pc' = "Fetching"
    /\ UNCHANGED <<entry, query, url, fetchCalls, status, fault, doc,
                   accumulators, response>>

\* a fetch that is tried a second time when it throws
FetchThrows_Retry ==
    /\ pc = "Fetching"
    /\ fetchCalls' = fetchCalls + 1
    /\ IF fetchCalls = 0
       THEN UNCHANGED <<fault, result, pc>>
       ELSE /\ fault' = "fetch"
            /\ result' = CatchResult
            /\ pc' = "Returned"
    /\ UNCHANGED <<entry, query, url, status, doc, accumulators, response>>

\* await fetch(url) throws: the catch block returns
FetchThrows ==
    /\ pc = "Fetching"
    /\ fetchCalls' = fetchCalls + 1
    /\ fault' = "fetch"
    /\ result' = CatchResult
    /\ pc' = "Returned"
    /\ UNCHANGED <<entry, query, url, status, doc, accumulators, response>>

\* await fetch(url) resolves with a response, which transform() takes
FetchResponds(st) ==
    /\ pc = "Fetching"
    /\ fetchCalls' = fetchCalls + 1
    /\ status' = st
    /\ pc' = "Streaming"
    /\ UNCHANGED <<entry, query, url, fault, doc, accumulators, result, response>>

\* .on("meta", meta$): one meta element
MetaElement(e) ==
    /\ pc = "Streaming"
    /\ Len(doc) < MaxEvents
    /\ doc' = Append(doc, e)
    /\ LET m == MetaExtractor_element(
                    [og |-> meta_og, twitter |-> meta_twitter,
                     description |-> meta_description], e)
       IN  /\ meta_og' = m.og
           /\ meta_twitter' = m.twitter
           /\ meta_description' = m.description
    /\ UNCHANGED <<entry, query, url, pc, fetchCalls, status, fault,
                   title_string, icon_appleIcon, icon_icon, result, response>>

\* a title handler that also keeps the text as the description
TitleText_IntoDescription(chunk) ==
    /\ pc = "Streaming"
    /\ Len(doc) < MaxEvents
    /\ doc' = Append(doc, chunk)
    /\ title_string' = TextExtractor_text(title_string, chunk)
    /\ meta_description' = Str(title_string')
    /\ UNCHANGED <<entry, query, url, pc, fetchCalls, status, fault, meta_og,
                   meta_twitter, icon_appleIcon, icon_icon, result, response>>

\* .on("title", title$): one text chunk of a title element
TitleText(chunk) ==
    /\ pc = "Streaming"
    /\ Len(doc) < MaxEvents
    /\ doc' = Append(doc, chunk)
    /\ title_string' = TextExtractor_text(title_string, chunk)
    /\ UNCHANGED <<entry, query, url, pc, fetchCalls, status, fault, meta_og,
                   meta_twitter, meta_description, icon_appleIcon, icon_icon,
                   result, response>>

\* .on("link", icon$): one link element
LinkElement(e) ==
    /\ pc = "Streaming"
    /\ Len(doc) < MaxEvents
    /\ doc' = Append(doc, e)
    /\ LET i == IconExtractor_element(
                    [appleIcon |-> icon_appleIcon, icon |-> icon_icon], e)
       IN  /\ icon_appleIcon' = i.appleIcon
           /\ icon_icon' = i.icon
    /\ UNCHANGED <<entry, query, url, pc, fetchCalls, status, fault,
                   title_string, meta_og, meta_twitter, meta_description,
                   result, response>>

\* .blob() rejects while the body is read: the catch block returns
StreamThrows ==
    /\ pc = "Streaming"
    /\ fault' = "stream"
    /\ result' = CatchResult
    /\ pc' = "Returned"
    /\ UNCHANGED <<entry, query, url, fetchCalls, status, doc, accumulators,
                   response>>

\* a resolution that makes all four fields absolute URLs
StreamEnd_ResolveAll ==
    /\ pc = "Streaming"
    /\ LET title == Absolutize(TitleOf(meta_og, meta_twitter, title_string), url.v)
           description == Absolutize(DescriptionOf(meta_og, meta_twitter,
                                                   meta_description), url.v)
           image == Absolutize(ImageCandidate(meta_og, meta_twitter), url.v)
           favicon == Absolutize(FaviconCandidate(icon_appleIcon, icon_icon), url.v)
       IN  IF title.threw \/ description.threw \/ image.threw \/ favicon.threw
           THEN /\ result' = result
                /\ pc' = "Rejected"
           ELSE /\ result' = GoodResult(UnfurledData(title.value, description.value,
                                                    image.value, favicon.value))
                /\ pc' = "Returned"
    /\ UNCHANGED <<entry, query, url, fetchCalls, status, fault, doc,
                   accumulators, response>>

\* .blob() resolves: the body was read to its end, and the statements after
\* the try block run; a throw of new URL rejects the promise unfurl returned
StreamEnd ==
    /\ pc = "Streaming"
    /\ LET title == TitleOf(meta_og, meta_twitter, title_string)
           description == DescriptionOf(meta_og, meta_twitter, meta_description)
           image == Absolutize(ImageCandidate(meta_og, meta_twitter), url.v)
           favicon == Absolutize(FaviconCandidate(icon_appleIcon, icon_icon), url.v)
       IN  IF image.threw \/ favicon.threw
           THEN /\ result' = result
                /\ pc' = "Rejected"
           ELSE /\ result' = GoodResult(UnfurledData(title, description,
                                                    image.value, favicon.value))
                /\ pc' = "Returned"
    /\ UNCHANGED <<entry, query, url, fetchCalls, status, fault, doc,
                   accumulators, response>>

----------------------------------------------------------------------------
(* handleUnfurlRequest *)

TextResponse(st, text) ==
    [status |-> st, contentType |-> "text/plain;charset=UTF-8", text |-> text]

\* JSON.stringify(value): a property whose value is undefined is left out
JSONStringify(value) ==
    [k \in {f \in DOMAIN value : value[f] # Undefined} |-> value[k]]

\* new Response(JSON.stringify(value), {headers}): the status defaults to 200
JSONResponse(value) ==
    [status |-> 200, contentType |-> "application/json",
     json |-> JSONStringify(value)]

\* the if chain without its last branch: every error is answered 400
ResponseOf_OneErrorStatus(r) ==
    IF r.ok THEN JSONResponse(r.value)
    ELSE TextResponse(400, "Bad URL query parameter.")

\* the if chain on the result of unfurl
ResponseOf(r) ==
    IF r.ok THEN JSONResponse(r.value)
    ELSE IF r.error = "bad-param"
    THEN TextResponse(400, "Bad URL query parameter.")
    ELSE TextResponse(422, "Failed to fetch URL.")

\* a call handleUnfurlRequest(request), q the url parameter of request.url
HandleRequest(q) ==
    /\ pc = "Idle"
    /\ entry' = "handleUnfurlRequest"
    /\ query' = q
    /\ pc' = "Handler"
    /\ UNCHANGED <<url, fetchCalls, status, fault, doc, accumulators, result,
                   response>>

\* if (!url) return 400, else unfurl(url) is called
CheckQuery ==
    /\ pc = "Handler"
    /\ IF ~Truthy(query)
       THEN /\ response' = TextResponse(400, "Missing URL query parameter.")
            /\ pc' = "Responded"
            /\ url' = url
       ELSE /\ response' = response
            /\ pc' = "Validating"
            /\ url' = query
    /\ UNCHANGED <<entry, query, fetchCalls, status, fault, doc, accumulators,
                   result>>

\* unfurl has returned to handleUnfurlRequest
Respond ==
    /\ pc = "Returned"
    /\ entry = "handleUnfurlRequest"
    /\ response' = ResponseOf(result)
    /\ pc' = "Responded"
    /\ UNCHANGED <<entry, query, url, fetchCalls, status, fault, doc,
                   accumulators, result>>

----------------------------------------------------------------------------
(* Specifications *)

\* the two exports, called with any argument
Next ==
    \/ \E u \in {Str(s) : s \in UrlStrings} \cup NonStrings : CallUnfurl(u)
    \/ \E q \in {Str(s) : s \in UrlStrings} \cup {Null} : HandleRequest(q)
    \/ CheckQuery
    \/ Validate
    \/ Respond

Spec == Init /\ [][Next]_vars

\* unfurl past its first if, entered by e with the request URL u
PassInitFor(e, u) ==
    /\ entry = e
    /\ query = IF e = "handleUnfurlRequest" THEN Str(u) ELSE Null
    /\ url = Str(u)
    /\ pc = "Fetching"
    /\ fetchCalls = 0
    /\ status = 0
    /\ fault = "none"
    /\ doc = <<>>
    /\ FreshAccumulators
    /\ result = NoResult
    /\ response = [status |-> 0]

PassInit == \E u \in PassUrls : PassInitFor("unfurl", u)

PassNext ==
    \/ FetchThrows
    \/ \E st \in Statuses : FetchResponds(st)
    \/ \E e \in MetaElements : MetaElement(e)
    \/ \E t \in TextChunks : TitleText(Text(t))
    \/ \E e \in LinkElements : LinkElement(e)
    \/ StreamThrows
    \/ StreamEnd

\* the try block and the resolution of unfurl, lines 49 to 96
PassSpec == PassInit /\ [][PassNext]_vars

FullInit ==
    \/ Init
    \/ \E u \in PassUrls : PassInitFor("handleUnfurlRequest", u)

FullNext == Next \/ PassNext

\* the exports, and handleUnfurlRequest with its call of unfurl followed
\* past the first if
FullSpec == FullInit /\ [][FullNext]_vars

----------------------------------------------------------------------------
(* Calls of unfurl in flight together.  Each of url, pc, fetchCalls, status,
   fault, doc and result holds, per call, what it holds for the one call of
   PassSpec, and each handler variable holds, per handler instance, what the
   instance holds.  A call runs until its next await; the steps of the calls
   interleave at the awaits and between two events. *)

Calls == {1, 2}

\* what the documents of the calls in flight together are made of
ConcElements ==
    {Meta(Str("og:title"), Null, Str("A")),
     Meta(Null, Str("twitter:image"), Str("")),
     Link(Str("icon"), Str("/favicon.ico")),
     Text("Hel")}

\* module-level handlers: every call uses the same three instances
AccumulatorOf_Shared(c) == Min(Calls)

\* the handlers a call delivers to: const meta$, title$, icon$ of that call
AccumulatorOf(c) == c

ConcInit ==
    /\ entry = "unfurl"
    /\ query = Null
    /\ url \in {f \in [Calls -> {Str(u) : u \in PassUrls}] :
                    f[1] = Str("https://example.com/page")}
    /\ pc = [c \in Calls |-> "Called"]
    /\ fetchCalls = [c \in Calls |-> 0]
    /\ status = [c \in Calls |-> 0]
    /\ fault = [c \in Calls |-> "none"]
    /\ doc = [c \in Calls |-> <<>>]
    /\ title_string = [c \in Calls |-> ""]
    /\ meta_og = [c \in Calls |-> EmptyObject]
    /\ meta_twitter = [c \in Calls |-> EmptyObject]
    /\ meta_description = [c \in Calls |-> Null]
    /\ icon_appleIcon = [c \in Calls |-> Null]
    /\ icon_icon = [c \in Calls |-> Null]
    /\ result = [c \in Calls |-> NoResult]
    /\ response = [status |-> 0]

\* new MetaExtractor(), new TextExtractor(), new IconExtractor(), up to the
\* call of fetch
ConcConstruct(c) ==
    /\ pc[c] = "Called"
    /\ LET a == AccumulatorOf(c)
       IN  /\ title_string' = [title_string EXCEPT ![a] = ""]
           /\ meta_og' = [meta_og EXCEPT ![a] = EmptyObject]
           /\ meta_twitter' = [meta_twitter EXCEPT ![a] = EmptyObject]
           /\ meta_description' = [meta_description EXCEPT ![a] = Null]
           /\ icon_appleIcon' = [icon_appleIcon EXCEPT ![a] = Null]
           /\ icon_icon' = [icon_icon EXCEPT ![a] = Null]
    /\ pc' = [pc EXCEPT ![c] = "Fetching"]
    /\ UNCHANGED <<entry, query, url, fetchCalls, status, fault, doc, result,
                   response>>

ConcFetchThrows(c) ==
    /\ pc[c] = "Fetching"
    /\ fetchCalls' = [fetchCalls EXCEPT ![c] = @ + 1]
    /\ fault' = [fault EXCEPT ![c] = "fetch"]
    /\ result' = [result EXCEPT ![c] = CatchResult]
    /\ pc' = [pc EXCEPT ![c] = "Returned"]
    /\ UNCHANGED <<entry, query, url, status, doc, accumulators, response>>

ConcFetchResponds(c, st) ==
    /\ pc[c] = "Fetching"
    /\ fetchCalls' = [fetchCalls EXCEPT ![c] = @ + 1]
    /\ status' = [status EXCEPT ![c] = st]
    /\ pc' = [pc EXCEPT ![c] = "Streaming"]
    /\ UNCHANGED <<entry, query, url, fault, doc, accumulators, result, response>>

ConcMetaElement(c, e) ==
    /\ pc[c] = "Streaming"
    /\ Len(doc[c]) < MaxEvents
    /\ doc' = [doc EXCEPT ![c] = Append(@, e)]
    /\ LET a == AccumulatorOf(c)
           m == MetaExtractor_element(
                    [og |-> meta_og[a], twitter |-> meta_twitter[a],
                     description |-> meta_description[a]], e)
       IN  /\ meta_og' = [meta_og EXCEPT ![a] = m.og]
           /\ meta_twitter' = [meta_twitter EXCEPT ![a] = m.twitter]
           /\ meta_description' = [meta_description EXCEPT ![a] = m.description]
    /\ UNCHANGED <<entry, query, url, pc, fetchCalls, status, fault,
                   title_string, icon_appleIcon, icon_icon, result, response>>

ConcTitleText(c, chunk) ==
    /\ pc[c] = "Streaming"
    /\ Len(doc[c]) < MaxEvents
    /\ doc' = [doc EXCEPT ![c] = Append(@, chunk)]
    /\ LET a == AccumulatorOf(c)
       IN  title_string' =
               [title_string EXCEPT ![a] = TextExtractor_text(@, chunk)]
    /\ UNCHANGED <<entry, query, url, pc, fetchCalls, status, fault, meta_og,
                   meta_twitter, meta_description, icon_appleIcon, icon_icon,
                   result, response>>

ConcLinkElement(c, e) ==
    /\ pc[c] = "Streaming"
    /\ Len(doc[c]) < MaxEvents
    /\ doc' = [doc EXCEPT ![c] = Append(@, e)]
    /\ LET a == AccumulatorOf(c)
           i == IconExtractor_element(
                    [appleIcon |-> icon_appleIcon[a], icon |-> icon_icon[a]], e)
       IN  /\ icon_appleIcon' = [icon_appleIcon EXCEPT ![a] = i.appleIcon]
           /\ icon_icon' = [icon_icon EXCEPT ![a] = i.icon]
    /\ UNCHANGED <<entry, query, url, pc, fetchCalls, status, fault,
                   title_string, meta_og, meta_twitter, meta_description,
                   result, response>>

ConcStreamThrows(c) ==
    /\ pc[c] = "Streaming"
    /\ fault' = [fault EXCEPT ![c] = "stream"]
    /\ result' = [result EXCEPT ![c] = CatchResult]
    /\ pc' = [pc EXCEPT ![c] = "Returned"]
    /\ UNCHANGED <<entry, query, url, fetchCalls, status, doc, accumulators,
                   response>>

ConcStreamEnd(c) ==
    /\ pc[c] = "Streaming"
    /\ LET a == AccumulatorOf(c)
           title == TitleOf(meta_og[a], meta_twitter[a], title_string[a])
           description == DescriptionOf(meta_og[a], meta_twitter[a],
                                        meta_description[a])
           image == Absolutize(ImageCandidate(meta_og[a], meta_twitter[a]),
                               url[c].v)
           favicon == Absolutize(FaviconCandidate(icon_appleIcon[a], icon_icon[a]),
                                 url[c].v)
       IN  IF image.threw \/ favicon.threw
           THEN /\ result' = result
                /\ pc' = [pc EXCEPT ![c] = "Rejected"]
           ELSE /\ result' = [result EXCEPT ![c] =
                                 GoodResult(UnfurledData(title, description,
                                                         image.value, favicon.value))]
                /\ pc' = [pc EXCEPT ![c] = "Returned"]
    /\ UNCHANGED <<entry, query, url, fetchCalls, status, fault, doc,
                   accumulators, response>>

ConcNext ==
    \/ \E c \in Calls : ConcConstruct(c)
    \/ \E c \in Calls : ConcFetchThrows(c)
    \/ \E c \in Calls : ConcFetchResponds(c, 200)
    \/ \E c \in Calls, e \in {x \in ConcElements : x.tag = "meta"} :
           ConcMetaElement(c, e)
    \/ \E c \in Calls, e \in {x \in ConcElements : x.tag = "title"} :
           ConcTitleText(c, e)
    \/ \E c \in Calls, e \in {x \in ConcElements : x.tag = "link"} :
           ConcLinkElement(c, e)
    \/ \E c \in Calls : ConcStreamThrows(c)
    \/ \E c \in Calls : ConcStreamEnd(c)

\* the statements of unfurl after its first if, for calls in flight together
ConcSpec == ConcInit /\ [][ConcNext]_vars

----------------------------------------------------------------------------
(* Properties *)

IsGood(r) == DOMAIN r = {"ok", "value"} /\ r.ok
IsBad(r) == DOMAIN r = {"ok", "error"} /\ ~r.ok

\* unfurl was called and its first if has been decided
Validated ==
    /\ pc \notin {"Idle", "Handler", "Validating"}
    /\ ~(entry = "handleUnfurlRequest" /\ ~Truthy(query))

Fields == {"title", "description", "image", "favicon"}

\* C1: a string that starts with "http://" or "https://" passes validation:
\* the call goes on to fetch and does not return bad-param.
C1_HttpUrlPassesValidation ==
    (/\ Validated
     /\ IsString(url)
     /\ (StartsWith(url.v, "http://") \/ StartsWith(url.v, "https://")))
    => /\ result # BadResult("bad-param")
       /\ pc \in {"Fetching", "Streaming", "Returned", "Rejected", "Responded"}

\* C2: the empty string and every value that is not a string get bad-param,
\* with no fetch; and no execution that ends in bad-param has invoked fetch.
C2_BadParamWithoutFetch ==
    /\ (Validated /\ (~IsString(url) \/ url.v = ""))
       => /\ pc \in {"Returned", "Responded"}
          /\ result = BadResult("bad-param")
          /\ fetchCalls = 0
    /\ result = BadResult("bad-param") => fetchCalls = 0 /\ status = 0

C2_Witness ==
    /\ pc = "Returned"
    /\ url = Str("")
    /\ result = BadResult("bad-param")
    /\ fetchCalls = 0

\* C3: the response of handleUnfurlRequest: 400 without a call of unfurl when
\* the url parameter is absent, 400 for bad-param, 422 for failed-fetch, 200
\* for success and only for success, the body then holding each of the four
\* fields that has a value, with that value, and nothing else.
C3_StatusOfEveryOutcome ==
    pc = "Responded" =>
        /\ response.status \in {200, 400, 422}
        /\ query = Null => response.status = 400 /\ result = NoResult
                           /\ url = Undefined /\ fetchCalls = 0
        /\ result = NoResult => response.status = 400 /\ ~Truthy(query)
        /\ result = BadResult("bad-param") => response.status = 400
        /\ result = BadResult("failed-fetch") => response.status = 422
        /\ response.status = 200 => IsGood(result)
        /\ IsGood(result) =>
            /\ response.status = 200
            /\ DOMAIN response.json \subseteq Fields
            /\ \A f \in Fields :
                IF result.value[f] = Undefined
                THEN f \notin DOMAIN response.json
                ELSE f \in DOMAIN response.json
                     /\ response.json[f] = result.value[f]

C3_Witness ==
    /\ pc = "Responded"
    /\ response.status = 200
    /\ IsGood(result)
    /\ DOMAIN response.json = {"title", "image"}
    /\ response.json.image = Str("https://example.com/img.png")

\* C4: a throw of fetch, or of the pass after any number of events, makes
\* unfurl return failed-fetch; a returned result is a success with a value and
\* no error, or a failure with an error and no value.
C4_ThrowGivesFailedFetch ==
    /\ fault # "none" => pc = "Returned" /\ result = BadResult("failed-fetch")
    /\ pc = "Returned" =>
        \/ IsGood(result) /\ DOMAIN result.value = Fields
        \/ IsBad(result) /\ result.error \in {"bad-param", "failed-fetch"}

C4_Witness ==
    /\ pc = "Returned"
    /\ fault = "stream"
    /\ Len(doc) = 2
    /\ title_string = "Hel"
    /\ "og:title" \in DOMAIN meta_og
    /\ result = BadResult("failed-fetch")

IsAbsoluteURL(s) == HasScheme(s)

RECURSIVE FirstPresent(_)
FirstPresent(seq) ==
    IF seq = <<>> THEN Undefined
    ELSE IF Head(seq) \notin {Null, Undefined} THEN Head(seq)
    ELSE FirstPresent(Tail(seq))

Max(S) == CHOOSE x \in S : \A y \in S : x >= y

\* the slot an event of the document belongs to, by the rules of the handlers
SlotOf(e) ==
    IF e.tag = "meta"
    THEN IF IsString(e.property) /\ Len(e.property.v) >= 3
            /\ SubSeq(e.property.v, 1, 3) = "og:"
         THEN [kind |-> "og", key |-> e.property.v]
         ELSE IF IsString(e.name) /\ Len(e.name.v) >= 8
                 /\ SubSeq(e.name.v, 1, 8) = "twitter:"
         THEN [kind |-> "twitter", key |-> e.name.v]
         ELSE IF IsString(e.name) /\ e.name.v = "description"
         THEN [kind |-> "description", key |-> ""]
         ELSE [kind |-> "none", key |-> ""]
    ELSE IF e.tag = "link"
    THEN IF IsString(e.rel) /\ e.rel.v = "icon"
         THEN [kind |-> "icon", key |-> ""]
         ELSE IF IsString(e.rel) /\ e.rel.v = "apple-touch-icon"
         THEN [kind |-> "appleIcon", key |-> ""]
         ELSE [kind |-> "none", key |-> ""]
    ELSE [kind |-> "text", key |-> ""]

\* the content or href (null when the attribute is missing) an element carries
CarriedBy(e) == IF e.tag = "meta" THEN e.content ELSE e.href

\* what the last element of the document in a slot carries, initial when
\* the document has no element in the slot
LastInSlot(slot, initial) ==
    LET hits == {i \in 1..Len(doc) : SlotOf(doc[i]) = slot}
    IN  IF hits = {} THEN initial ELSE CarriedBy(doc[Max(hits)])

\* the keys of a kind ("og", "twitter") the elements of the document carry
KeysInDoc(kind) ==
    {SlotOf(doc[i]).key : i \in {j \in 1..Len(doc) : SlotOf(doc[j]).kind = kind}}

\* C7: each field is the first candidate of its chain that is there; an empty
\* string is there, a missing key and a missing content or href are not. With
\* an og:title element that has a content, title is that content wherever
\* the text of the title element comes in the document.
C7_FirstPresentOfChain ==
    (pc = "Returned" /\ IsGood(result)) =>
        /\ result.value.title =
             FirstPresent(<<Get(meta_og, "og:title"),
                            Get(meta_twitter, "twitter:title"),
                            Str(title_string)>>)
        /\ result.value.description =
             FirstPresent(<<Get(meta_og, "og:description"),
                            Get(meta_twitter, "twitter:description"),
                            meta_description>>)
        /\ result.value.image =
             Absolutize(FirstPresent(<<Get(meta_og, "og:image:secure_url"),
                                       Get(meta_og, "og:image"),
                                       Get(meta_twitter, "twitter:image")>>),
                        url.v).value
        /\ result.value.favicon =
             Absolutize(FirstPresent(<<icon_appleIcon, icon_icon>>), url.v).value
        /\ LET c == LastInSlot([kind |-> "og", key |-> "og:title"], Undefined)
           IN  IsString(c) => result.value.title = c

C7_Witness ==
    /\ pc = "Returned"
    /\ doc = <<Text("Hel"), Meta(Str("og:title"), Null, Str("A"))>>
    /\ IsGood(result)
    /\ result.value.title = Str("A")

C9_LastWriteWins ==
    /\ DOMAIN meta_og = KeysInDoc("og")
    /\ \A k \in DOMAIN meta_og :
           meta_og[k] = LastInSlot([kind |-> "og", key |-> k], Undefined)
    /\ DOMAIN meta_twitter = KeysInDoc("twitter")
    /\ \A k \in DOMAIN meta_twitter :
           meta_twitter[k] = LastInSlot([kind |-> "twitter", key |-> k], Undefined)
    /\ meta_description = LastInSlot([kind |-> "description", key |-> ""], Null)
    /\ icon_icon = LastInSlot([kind |-> "icon", key |-> ""], Null)
    /\ icon_appleIcon = LastInSlot([kind |-> "appleIcon", key |-> ""], Null)
    /\ (/\ pc = "Returned"
        /\ IsGood(result)
        /\ Len(doc) >= 2
        /\ doc[Len(doc) - 1] = Meta(Str("og:title"), Null, Str("A"))
        /\ SlotOf(doc[Len(doc)]) = [kind |-> "og", key |-> "og:title"]
        /\ doc[Len(doc)].content = Str("B"))
       => result.value.title = Str("B")

C9_Witness ==
    /\ pc = "Returned"
    /\ doc = <<Meta(Str("og:title"), Null, Str("A")),
               Meta(Str("og:title"), Str("twitter:title"), Str("B"))>>
    /\ IsGood(result)
    /\ result.value.title = Str("B")

\* the text chunks of a document, joined in their order
RECURSIVE JoinedText(_)
JoinedText(d) ==
    IF d = <<>> THEN ""
    ELSE (IF Head(d).tag = "title" THEN Head(d).text ELSE "") \o JoinedText(Tail(d))

\* C10: the title buffer is the chunks delivered, joined in their order, and
\* with no og:title and no twitter:title it is the title of the result: the
\* chunks "Hel" and "lo" give "Hello".
C10_TitleIsJoinedChunks ==
    /\ title_string = JoinedText(doc)
    /\ (/\ pc = "Returned"
        /\ IsGood(result)
        /\ Get(meta_og, "og:title") \in {Null, Undefined}
        /\ Get(meta_twitter, "twitter:title") \in {Null, Undefined})
       => result.value.title = Str(JoinedText(doc))

C10_Witness ==
    /\ pc = "Returned"
    /\ doc = <<Text("Hel"), Text("lo")>>
    /\ IsGood(result)
    /\ result.value.title = Str("Hello")

\* what the three handlers of one call hold after the events of d, and no
\* other event, were delivered to them
RECURSIVE HandlersAfter(_)
HandlersAfter(d) ==
    IF d = <<>>
    THEN [string |-> "", og |-> EmptyObject, twitter |-> EmptyObject,
          description |-> Null, appleIcon |-> Null, icon |-> Null]
    ELSE LET h == HandlersAfter(SubSeq(d, 1, Len(d) - 1))
             e == d[Len(d)]
         IN  IF e.tag = "title"
             THEN [h EXCEPT !.string = TextExtractor_text(h.string, e)]
             ELSE IF e.tag = "meta"
             THEN LET m == MetaExtractor_element(
                               [og |-> h.og, twitter |-> h.twitter,
                                description |-> h.description], e)
                  IN  [h EXCEPT !.og = m.og, !.twitter = m.twitter,
                                !.description = m.description]
             ELSE LET i == IconExtractor_element(
                               [appleIcon |-> h.appleIcon, icon |-> h.icon], e)
                  IN  [h EXCEPT !.appleIcon = i.appleIcon, !.icon = i.icon]

\* what a call of unfurl(u) that runs alone gets from the document d:
\* [threw, value]
Alone(u, d) ==
    LET h == HandlersAfter(d)
        image == Absolutize(ImageCandidate(h.og, h.twitter), u)
        favicon == Absolutize(FaviconCandidate(h.appleIcon, h.icon), u)
    IN  [threw |-> image.threw \/ favicon.threw,
         value |-> UnfurledData(TitleOf(h.og, h.twitter, h.string),
                                DescriptionOf(h.og, h.twitter, h.description),
                                image.value, favicon.value)]

\* C11: with calls in flight together, in every interleaving, the handlers of
\* a call hold what the events of that call alone leave in them (fresh ones
\* when the call starts), and the call ends as it would end alone.
C11_CallsAreIndependent ==
    \A c \in Calls :
        LET h == HandlersAfter(doc[c])
        IN  /\ pc[c] # "Called" =>
                /\ title_string[c] = h.string
                /\ meta_og[c] = h.og
                /\ meta_twitter[c] = h.twitter
                /\ meta_description[c] = h.description
                /\ icon_appleIcon[c] = h.appleIcon
                /\ icon_icon[c] = h.icon
            /\ (pc[c] = "Returned" /\ fault[c] = "none") =>
                /\ ~Alone(url[c].v, doc[c]).threw
                /\ result[c] = GoodResult(Alone(url[c].v, doc[c]).value)
            /\ pc[c] = "Rejected" => Alone(url[c].v, doc[c]).threw
            /\ fault[c] # "none" =>
                pc[c] = "Returned" /\ result[c] = BadResult("failed-fetch")

C11_Witness ==
    /\ pc[1] = "Streaming"
    /\ doc[1] = <<Text("Hel"), Meta(Str("og:title"), Null, Str("A"))>>
    /\ pc[2] = "Returned"
    /\ doc[2] = <<Link(Str("icon"), Str("/favicon.ico"))>>
    /\ url[1] = url[2]
    /\ result[2] = GoodResult(UnfurledData(Str(""), Undefined, Undefined,
                                           Str("https://example.com/favicon.ico")))

\* C12: two calls with the same URL whose fetches deliver the same events end
\* the same way: both return the same result, or both throw.
C12_SameInputSameResult ==
    \A c, d \in Calls :
        (/\ pc[c] \in {"Returned", "Rejected"}
         /\ pc[d] \in {"Returned", "Rejected"}
         /\ url[c] = url[d]
         /\ status[c] = status[d]
         /\ fault[c] = fault[d]
         /\ doc[c] = doc[d])
        => pc[c] = pc[d] /\ result[c] = result[d]

C12_Witness ==
    /\ pc[1] = "Returned"
    /\ pc[2] = "Returned"
    /\ url[1] = url[2]
    /\ doc[1] = <<Text("Hel"), Meta(Null, Str("twitter:image"), Str(""))>>
    /\ doc[2] = doc[1]
    /\ IsGood(result[1])
    /\ result[1] = result[2]

Delivers(tag) ==
    /\ pc = "Streaming"
    /\ Len(doc') = Len(doc) + 1
    /\ doc'[Len(doc')].tag = tag

\* the object o with the value v under the key k, every other key as it was
StoredIn(o, k, v, after) ==
    /\ DOMAIN after = DOMAIN o \cup {k}
    /\ after[k] = v
    /\ \A j \in DOMAIN o \ {k} : after[j] = o[j]

\* C14: a meta element fires at most one rule, tried in the order og (property
\* starts with "og:"), twitter (name starts with "twitter:"), description
\* (name is "description"): the first rule that matches stores the content
\* and the targets of the other rules stay as they were; an element matching
\* no rule changes nothing.
C14_OneRulePerMeta ==
    [][Delivers("meta") =>
        LET e == doc'[Len(doc')]
            isOg == IsString(e.property) /\ Len(e.property.v) > 0
                    /\ StartsWith(e.property.v, "og:")
            isTwitter == IsString(e.name) /\ Len(e.name.v) > 0
                         /\ StartsWith(e.name.v, "twitter:")
            isDescription == e.name = Str("description")
        IN  /\ isOg =>
                /\ StoredIn(meta_og, e.property.v, e.content, meta_og')
                /\ meta_twitter' = meta_twitter
                /\ meta_description' = meta_description
            /\ (~isOg /\ isTwitter) =>
                /\ StoredIn(meta_twitter, e.name.v, e.content, meta_twitter')
                /\ meta_og' = meta_og
                /\ meta_description' = meta_description
            /\ (~isOg /\ ~isTwitter /\ isDescription) =>
                /\ meta_description' = e.content
                /\ meta_og' = meta_og
                /\ meta_twitter' = meta_twitter
            /\ (~isOg /\ ~isTwitter /\ ~isDescription) =>
                /\ meta_og' = meta_og
                /\ meta_twitter' = meta_twitter
                /\ meta_description' = meta_description
    ]_vars

C14_Witness ==
    /\ pc = "Streaming"
    /\ doc = <<Meta(Str("og:title"), Str("twitter:title"), Str("B")),
               Meta(Str("og:description"), Str("description"), Str("/about.html"))>>
    /\ DOMAIN meta_og = {"og:title", "og:description"}
    /\ meta_twitter = EmptyObject
    /\ meta_description = Null

\* C15: a link element stores its href as the icon only when rel is exactly
\* "icon" and as the Apple icon only when rel is exactly "apple-touch-icon",
\* the other slot staying as it was; any other rel, "shortcut icon" and an
\* absent rel among them, leaves both slots as they were.
C15_ExactRelOnly ==
    [][Delivers("link") =>
        LET e == doc'[Len(doc')]
        IN  /\ e.rel = Str("icon") =>
                icon_icon' = e.href /\ icon_appleIcon' = icon_appleIcon
            /\ e.rel = Str("apple-touch-icon") =>
                icon_appleIcon' = e.href /\ icon_icon' = icon_icon
            /\ e.rel \notin {Str("icon"), Str("apple-touch-icon")} =>
                icon_icon' = icon_icon /\ icon_appleIcon' = icon_appleIcon
    ]_vars

C15_Witness ==
    /\ pc = "Streaming"
    /\ \E rel \in {Str("shortcut icon"), Null} :
        doc = <<Link(Str("apple-touch-icon"), Str("apple.png")),
                Link(rel, IF rel = Null THEN Str("/x.ico") ELSE Str("/s.ico"))>>
    /\ icon_appleIcon = Str("apple.png")
    /\ icon_icon = Null

\* the slot of the element a step delivers, of kind "none" when the step
\* delivers nothing
DeliveredSlot ==
    IF Len(doc') = Len(doc) + 1
    THEN SlotOf(doc'[Len(doc')])
    ELSE [kind |-> "none", key |-> ""]

\* C16: in every step the title buffer extends its value, no key leaves the og
\* and twitter objects, and a stored value changes only in a step
\* that delivers an element of its own slot; events are delivered only while
\* the pass runs, and a success result is set only in the step that ends the
\* pass, which delivers nothing and leaves the handlers as they are.
C16_BuiltMonotonically ==
    [][/\ Len(title_string') >= Len(title_string)
       /\ SubSeq(title_string', 1, Len(title_string)) = title_string
       /\ title_string' # title_string => DeliveredSlot.kind = "text"
       /\ DOMAIN meta_og \subseteq DOMAIN meta_og'
       /\ DOMAIN meta_twitter \subseteq DOMAIN meta_twitter'
       /\ \A k \in DOMAIN meta_og :
            meta_og'[k] # meta_og[k] => DeliveredSlot = [kind |-> "og", key |-> k]
       /\ \A k \in DOMAIN meta_twitter :
            meta_twitter'[k] # meta_twitter[k]
            => DeliveredSlot = [kind |-> "twitter", key |-> k]
       /\ meta_description' # meta_description => DeliveredSlot.kind = "description"
       /\ icon_icon' # icon_icon => DeliveredSlot.kind = "icon"
       /\ icon_appleIcon' # icon_appleIcon => DeliveredSlot.kind = "appleIcon"
       /\ doc' # doc => pc = "Streaming" /\ pc' = "Streaming"
       /\ pc # "Streaming" => accumulators' = accumulators
       /\ (result' # result /\ IsGood(result')) =>
            /\ pc = "Streaming"
            /\ pc' = "Returned"
            /\ doc' = doc
            /\ accumulators' = accumulators
    ]_vars

C16_Witness ==
    /\ pc = "Returned"
    /\ IsGood(result)
    /\ doc = <<Meta(Str("og:title"), Null, Str("A")),
               Meta(Str("og:description"), Null, Str(""))>>
    /\ DOMAIN meta_og = {"og:title", "og:description"}
    /\ result.value.title = Str("A")
    /\ result.value.description = Str("")

\* C17: a title text event changes only the title buffer, a meta element only
\* the og object, the twitter object and the description, a link element only
\* the two icons.
C17_NoCrossTalk ==
    [][/\ Delivers("title") =>
            UNCHANGED <<meta_og, meta_twitter, meta_description,
                        icon_appleIcon, icon_icon>>
       /\ Delivers("meta") =>
            UNCHANGED <<title_string, icon_appleIcon, icon_icon>>
       /\ Delivers("link") =>
            UNCHANGED <<title_string, meta_og, meta_twitter, meta_description>>
    ]_vars

C17_Witness ==
    /\ pc = "Streaming"
    /\ doc = <<Meta(Null, Str("description"), Str("G")), Text("Hel")>>
    /\ title_string = "Hel"
    /\ meta_description = Str("G")
    /\ meta_og = EmptyObject
    /\ icon_icon = Null

\* the string c starts with the four characters http
HasHttpPrefix(c) == IsString(c) /\ Len(c.v) >= 4 /\ SubSeq(c.v, 1, 4) = "http"

\* C18: for every request URL the title and the description of a success
\* result are the candidates selected from the handlers, as they were
\* stored, and an image or favicon candidate that starts with "http" is
\* returned as it is.
C18_OnlyImageAndFaviconResolved ==
    (pc = "Returned" /\ IsGood(result)) =>
        /\ result.value.title =
             FirstPresent(<<Get(meta_og, "og:title"),
                            Get(meta_twitter, "twitter:title"),
                            Str(title_string)>>)
        /\ result.value.description =
             FirstPresent(<<Get(meta_og, "og:description"),
                            Get(meta_twitter, "twitter:description"),
                            meta_description>>)
        /\ LET image == FirstPresent(<<Get(meta_og, "og:image:secure_url"),
                                       Get(meta_og, "og:image"),
                                       Get(meta_twitter, "twitter:image")>>)
               favicon == FirstPresent(<<icon_appleIcon, icon_icon>>)
           IN  /\ HasHttpPrefix(image) => result.value.image = image
               /\ HasHttpPrefix(favicon) => result.value.favicon = favicon

C18_Witness ==
    /\ pc = "Returned"
    /\ IsGood(result)
    /\ doc = <<Meta(Str("og:description"), Str("description"), Str("/about.html")),
               Link(Str("icon"), Str("httpfoo"))>>
    /\ result.value.description = Str("/about.html")
    /\ result.value.favicon = Str("httpfoo")

\* the order of the steps of a call
StepOrder ==
    {<<"Idle", "Validating">>, <<"Idle", "Handler">>,
     <<"Handler", "Validating">>, <<"Handler", "Responded">>,
     <<"Validating", "Fetching">>, <<"Validating", "Returned">>,
     <<"Fetching", "Streaming">>, <<"Fetching", "Returned">>,
     <<"Streaming", "Returned">>, <<"Streaming", "Rejected">>,
     <<"Returned", "Responded">>}

\* C19: a call goes through validation, fetch, pass and resolution in this
\* order; fetch is invoked once at most, by a call whose URL passed the first
\* if, and not again after it threw; a result is set by the first if, by the
\* catch block, or by the step that ends the pass.
C19_OneFetchInOrder ==
    [][/\ pc' # pc => <<pc, pc'>> \in StepOrder
       /\ (pc = "Validating" /\ pc' = "Fetching") => ~BadParam(url)
       /\ fetchCalls' # fetchCalls =>
            /\ pc = "Fetching"
            /\ fetchCalls = 0
            /\ fetchCalls' = 1
            /\ pc' \in {"Streaming", "Returned"}
       /\ pc = "Fetching" => fetchCalls = 0 /\ fetchCalls' = 1
       /\ (pc = "Fetching" /\ pc' = "Returned") =>
            fault' = "fetch" /\ result' = BadResult("failed-fetch")
       /\ fault # "none" => fetchCalls' = fetchCalls
       /\ result' # result =>
            \/ pc = "Validating" /\ result' = BadResult("bad-param")
            \/ pc = "Fetching" /\ fault' = "fetch"
            \/ pc = "Streaming" /\ fault' = "stream"
            \/ pc = "Streaming" /\ doc' = doc /\ IsGood(result')
    ]_vars

C19_Witness ==
    /\ pc = "Responded"
    /\ entry = "handleUnfurlRequest"
    /\ fault = "fetch"
    /\ fetchCalls = 1
    /\ doc = <<>>
    /\ result = BadResult("failed-fetch")
    /\ response.status = 422

\* the elements of the document in a slot
Hits(slot) == {i \in 1..Len(doc) : SlotOf(doc[i]) = slot}

\* C20: when the last element of a slot has no content or href, the field
\* falls through to the next source of its chain, whatever the elements of
\* the slot before it carried: title to twitter:title and then the title
\* text, favicon with no Apple icon to no value.
C20_MissingAttributeClearsSlot ==
    (pc = "Returned" /\ IsGood(result)) =>
        /\ (/\ Hits([kind |-> "og", key |-> "og:title"]) # {}
            /\ LastInSlot([kind |-> "og", key |-> "og:title"], Undefined) = Null)
           => result.value.title =
                FirstPresent(<<LastInSlot([kind |-> "twitter",
                                           key |-> "twitter:title"], Undefined),
                               Str(JoinedText(doc))>>)
        /\ (/\ Hits([kind |-> "icon", key |-> ""]) # {}
            /\ LastInSlot([kind |-> "icon", key |-> ""], Null) = Null
            /\ LastInSlot([kind |-> "appleIcon", key |-> ""], Null) = Null)
           => result.value.favicon = Undefined

C20_Witness ==
    /\ pc = "Returned"
    /\ IsGood(result)
    /\ doc = <<Meta(Str("og:title"), Null, Str("A")),
               Meta(Str("og:title"), Null, Null)>>
    /\ result.value.title = Str("")

====
